---- MODULE Spec2Model ----
(***************************************************************************)
(* A model of tensorflow_datasets/structured/genomics_ood.py: the split    *)
(* resolver GenomicsOod._split_generators and the record parser            *)
(* GenomicsOod._generate_examples, a Python generator over                 *)
(* csv.DictReader(f, delimiter='\t') on a tf.io.gfile.GFile.               *)
(*                                                                         *)
(* Text is a sequence of tokens.  A token is a chunk of characters that    *)
(* holds no tab, no double quote, no line feed, no carriage return and no  *)
(* NUL; TAB, QUOTE and NL are the characters of the modelled files that    *)
(* the csv reader treats specially.  A file is a sequence of lines, a line *)
(* a sequence of tokens without its terminating line feed (every line of a *)
(* file is taken to end with one).                                         *)
(***************************************************************************)
EXTENDS Integers, Sequences, FiniteSets, TLC

TAB == "\t"
QUOTE == "\""
NL == "\n"
SEP == "/"

\* ------------------------------------------------------------------ bounds

\* data lines of a file drawn for the parser
MaxRows == 2
\* generator objects the caller creates
MaxGens == 2
\* calls of _split_generators
MaxCalls == 2

\* ------------------------------------------------------------ small helpers

Last(s) == s[Len(s)]

IsPrefix(s, t) == Len(s) <= Len(t) /\ SubSeq(t, 1, Len(s)) = s

SetMax(S) == CHOOSE x \in S : \A y \in S : y <= x

\* ------------------------------------------------------------------ _info

\* features=tfds.features.FeaturesDict({...})
InfoFeatures == {"seq", "label_id", "label_name", "seq_info", "domain"}

\* supervised_keys=('seq', 'label_id')
SupervisedKeys == <<"seq", "label_id">>

\* ------------------------------------------------------- _split_generators

\* os.path.join(a, b) for POSIX paths, a path being a sequence of tokens
\* with SEP the separator character.
os_path_join(a, b) ==
  IF b # <<>> /\ Head(b) = SEP THEN b
  ELSE IF a = <<>> \/ Last(a) = SEP THEN a \o b
  ELSE a \o <<SEP>> \o b

\* SplitGenerators with the files of validation and test exchanged.
SplitGenerators_swapped(data_path) ==
  << [name |-> "train",
      filename |-> os_path_join(data_path, <<"before_2011_in_tr.txt">>)],
     [name |-> "validation",
      filename |-> os_path_join(data_path, <<"after_2016_in_test.txt">>)],
     [name |-> "test",
      filename |-> os_path_join(data_path, <<"between_2011-2016_in_val.txt">>)],
     [name |-> "validation_ood",
      filename |-> os_path_join(data_path, <<"between_2011-2016_ood_val.txt">>)],
     [name |-> "test_ood",
      filename |-> os_path_join(data_path, <<"after_2016_ood_test.txt">>)] >>

\* The list _split_generators returns for the directory data_path.
SplitGenerators(data_path) ==
  << [name |-> "train",
      filename |-> os_path_join(data_path, <<"before_2011_in_tr.txt">>)],
     [name |-> "validation",
      filename |-> os_path_join(data_path, <<"between_2011-2016_in_val.txt">>)],
     [name |-> "test",
      filename |-> os_path_join(data_path, <<"after_2016_in_test.txt">>)],
     [name |-> "validation_ood",
      filename |-> os_path_join(data_path, <<"between_2011-2016_ood_val.txt">>)],
     [name |-> "test_ood",
      filename |-> os_path_join(data_path, <<"after_2016_ood_test.txt">>)] >>

\* ------------------------------------------------------------- csv.reader

\* The reader's parse state after parse_reset.
ParseReset == [state |-> "START_RECORD", fields |-> <<>>, field |-> <<>>]

parse_save_field(st) ==
  [st EXCEPT !.fields = Append(st.fields, st.field), !.field = <<>>]

parse_add_char(st, c) == [st EXCEPT !.field = Append(st.field, c)]

\* One character through the reader of csv.reader(f, delimiter='\t'): the
\* excel dialect's quotechar '"', doublequote, no escapechar, no
\* skipinitialspace, QUOTE_MINIMAL, not strict.  EOL is the end-of-line
\* signal the reader feeds itself after the last character of each line.
EOL == "<EOL>"

ParseChar(st, c) ==
  CASE st.state \in {"START_RECORD", "START_FIELD"} ->
         IF st.state = "START_RECORD" /\ c = EOL THEN st
         ELSE IF st.state = "START_RECORD" /\ c = NL
           THEN [st EXCEPT !.state = "EAT_CRNL"]
         ELSE IF c = NL \/ c = EOL
           THEN [parse_save_field(st) EXCEPT
                   !.state = IF c = EOL THEN "START_RECORD" ELSE "EAT_CRNL"]
         ELSE IF c = QUOTE THEN [st EXCEPT !.state = "IN_QUOTED_FIELD"]
         ELSE IF c = TAB
           THEN [parse_save_field(st) EXCEPT !.state = "START_FIELD"]
         ELSE [parse_add_char(st, c) EXCEPT !.state = "IN_FIELD"]
    [] st.state = "IN_FIELD" ->
         IF c = NL \/ c = EOL
           THEN [parse_save_field(st) EXCEPT
                   !.state = IF c = EOL THEN "START_RECORD" ELSE "EAT_CRNL"]
         ELSE IF c = TAB
           THEN [parse_save_field(st) EXCEPT !.state = "START_FIELD"]
         ELSE parse_add_char(st, c)
    [] st.state = "IN_QUOTED_FIELD" ->
         IF c = EOL THEN st
         ELSE IF c = QUOTE THEN [st EXCEPT !.state = "QUOTE_IN_QUOTED_FIELD"]
         ELSE parse_add_char(st, c)
    [] st.state = "QUOTE_IN_QUOTED_FIELD" ->
         IF c = QUOTE
           THEN [parse_add_char(st, c) EXCEPT !.state = "IN_QUOTED_FIELD"]
         ELSE IF c = TAB
           THEN [parse_save_field(st) EXCEPT !.state = "START_FIELD"]
         ELSE IF c = NL \/ c = EOL
           THEN [parse_save_field(st) EXCEPT
                   !.state = IF c = EOL THEN "START_RECORD" ELSE "EAT_CRNL"]
         ELSE [parse_add_char(st, c) EXCEPT !.state = "IN_FIELD"]
    [] st.state = "EAT_CRNL" ->
         \* a line break is followed by EOL only: a line holds no other one
         IF c = EOL THEN [st EXCEPT !.state = "START_RECORD"] ELSE st

RECURSIVE ParseChars(_, _)
ParseChars(st, cs) ==
  IF cs = <<>> THEN st ELSE ParseChars(ParseChar(st, Head(cs)), Tail(cs))

\* One line of the file through the reader: its characters, its line break,
\* then EOL.
ParseLine(st, line) == ParseChars(st, line \o <<NL, EOL>>)

\* next(reader) on the lines of a file of which `cursor` are already read:
\* the lines are consumed until a record is complete.  At the end of the
\* input a field left open inside quotes is kept (the reader is not strict).
RECURSIVE ReaderLoop(_, _, _)
ReaderLoop(st, lines, cursor) ==
  IF cursor >= Len(lines)
    THEN IF st.field # <<>> \/ st.state = "IN_QUOTED_FIELD"
           THEN [stop |-> FALSE, row |-> parse_save_field(st).fields,
                 cursor |-> cursor]
           ELSE [stop |-> TRUE, row |-> <<>>, cursor |-> cursor]
    ELSE LET st2 == ParseLine(st, lines[cursor + 1])
         IN IF st2.state = "START_RECORD"
              THEN [stop |-> FALSE, row |-> st2.fields, cursor |-> cursor + 1]
              ELSE ReaderLoop(st2, lines, cursor + 1)

ReaderNext(lines, cursor) == ReaderLoop(ParseReset, lines, cursor)

\* ---------------------------------------------------------- csv.DictReader

\* A value of a row dictionary: the text of a field, None (restval), or the
\* list of the fields beyond the header (under restkey).
Txt(t) == [kind |-> "text", items |-> <<t>>]
NoneVal == [kind |-> "none", items |-> <<>>]
ListVal(l) == [kind |-> "list", items |-> l]

\* The key None (restkey) of a row dictionary; no text is equal to it.
RestKey == <<"<None>">>

\* The key a Python string literal such as 'seq' is in a row dictionary.
KeyText(k) == <<k>>

\* DictReader.fieldnames before the header is read.
NoFieldnames == [set |-> FALSE, names |-> <<>>]

\* DictRow taking the columns in the documented order, whatever the header.
DictRow_positional(names, row) ==
  LET cols == <<"seq", "label_id", "label_name", "seq_info", "domain">>
  IN [k \in {KeyText(cols[i]) : i \in 1..5} |->
        LET i == CHOOSE j \in 1..5 : KeyText(cols[j]) = k
        IN IF i <= Len(row) THEN Txt(row[i]) ELSE NoneVal]

\* DictRow without the restval of a short row: only the zipped keys.
DictRow_norestval(names, row) ==
  LET lf == Len(names)
      lr == Len(row)
      n == IF lf < lr THEN lf ELSE lr
      at(k) == SetMax({i \in 1..n : names[i] = k})
  IN [k \in {names[i] : i \in 1..n} |-> Txt(row[at(k)])]

\* d = dict(zip(fieldnames, row)), then d[restkey] = row[lf:] for a long row
\* or d[key] = restval for the keys a short row does not reach.
DictRow(names, row) ==
  LET lf == Len(names)
      lr == Len(row)
      keys == {names[i] : i \in 1..lf} \cup (IF lf < lr THEN {RestKey} ELSE {})
      at(k) == SetMax({i \in 1..lf : names[i] = k})
  IN [k \in keys |->
        IF k = RestKey /\ lf < lr THEN ListVal(SubSeq(row, lf + 1, lr))
        ELSE IF at(k) <= lr THEN Txt(row[at(k)]) ELSE NoneVal]

\* while row == []: row = next(self.reader)
RECURSIVE SkipBlank(_, _)
SkipBlank(lines, cursor) ==
  LET r == ReaderNext(lines, cursor)
  IN IF r.stop \/ r.row # <<>> THEN r ELSE SkipBlank(lines, r.cursor)

\* DictReader.__next__: the first call reads the header into fieldnames;
\* then the next row that is not blank becomes a dictionary.
DictNext(lines, cursor, fieldnames) ==
  LET h == IF fieldnames.set THEN [stop |-> TRUE, row |-> <<>>, cursor |-> cursor]
           ELSE ReaderNext(lines, cursor)
      fn == IF fieldnames.set \/ h.stop THEN fieldnames
            ELSE [set |-> TRUE, names |-> h.row]
      r == SkipBlank(lines, h.cursor)
  IN [stop |-> r.stop, cursor |-> r.cursor, fieldnames |-> fn,
      row |-> IF r.stop THEN <<>> ELSE DictRow(fn.names, r.row)]

\* ------------------------------------------------------ _generate_examples

\* The keys the loop body assigns: example['seq'] = row['seq'], ...
ExampleKeys == {"seq", "label_id", "label_name", "seq_info", "domain"}

\* Example copying every column of the row dictionary.
Example_copy(row) ==
  [k \in {key[1] : key \in DOMAIN row} |-> row[KeyText(k)]]

\* The example the loop body builds from a row dictionary.
Example(row) == [k \in ExampleKeys |-> row[KeyText(k)]]

\* A file of the file system: absent, or its lines.
Absent == [present |-> FALSE, lines |-> <<>>]
FileOf(lines) == [present |-> TRUE, lines |-> lines]

\* A generator object that does not exist yet.
Unborn ==
  [pc |-> "unborn", filename |-> <<>>, handle |-> "none", cursor |-> 0,
   fieldnames |-> NoFieldnames, row_id |-> 0, out |-> <<>>, err |-> "none"]

\* NewGenerator with enumerate counting from 1.
NewGenerator_from1(filename) ==
  [Unborn EXCEPT !.pc = "created", !.filename = filename, !.row_id = 1]

\* The generator object the call _generate_examples(filename) returns: no
\* line of the body has run yet.
NewGenerator(filename) ==
  [Unborn EXCEPT !.pc = "created", !.filename = filename]

\* ExitWith without the with block: the file is left as it is.
ExitWith_leak(fr) == fr

\* Leaving the with block, on every way out of it: f.close().
ExitWith(fr) == [fr EXCEPT !.handle = "closed"]

\* OpenFails taking an absent file for an empty one.
OpenFails_never(fr, file) == FALSE

\* The first read of the GFile raises NotFoundError when the file is absent.
OpenFails(fr, file) == fr.pc = "created" /\ ~file.present

\* next(generator) on the frame fr over `file`: the body runs to its next
\* yield, to its end, or to an exception.
Resume(fr, file) ==
  IF OpenFails(fr, file)
    THEN ExitWith([fr EXCEPT !.pc = "failed", !.err = "NotFoundError"])
  ELSE
    LET d == DictNext(file.lines, fr.cursor, fr.fieldnames)
        read == [fr EXCEPT !.handle = "open", !.cursor = d.cursor,
                           !.fieldnames = d.fieldnames]
    IN IF d.stop THEN ExitWith([read EXCEPT !.pc = "done"])
       ELSE IF \E k \in ExampleKeys : KeyText(k) \notin DOMAIN d.row
         THEN ExitWith([read EXCEPT !.pc = "failed", !.err = "KeyError"])
       ELSE [read EXCEPT !.pc = "suspended",
                         !.out = Append(fr.out, <<fr.row_id, Example(d.row)>>),
                         !.row_id = fr.row_id + 1]

\* generator.close(): GeneratorExit is raised at the yield the generator is
\* suspended at and leaves the with block; a generator that never started
\* runs nothing.
Close(fr) ==
  IF fr.pc = "suspended" THEN ExitWith([fr EXCEPT !.pc = "closed"])
  ELSE [fr EXCEPT !.pc = "closed"]

\* SplitGeneratorsCall fetching a second time when the fetch fails.
SplitGeneratorsCall_retry(fetch) ==
  IF fetch.ok
    THEN [raised |-> FALSE, fetches |-> 1,
          splits |-> SplitGenerators(fetch.path)]
    ELSE [raised |-> TRUE, fetches |-> 2, splits |-> <<>>]

\* What one call of _split_generators does with the outcome of
\* dl_manager.download_and_extract(_DOWNLOAD_URL): an exception of the
\* fetch propagates, else the splits of the returned directory are returned.
SplitGeneratorsCall(fetch) ==
  IF fetch.ok
    THEN [raised |-> FALSE, fetches |-> 1, splits |-> SplitGenerators(fetch.path)]
    ELSE [raised |-> TRUE, fetches |-> 1, splits |-> <<>>]

\* ------------------------------------------------------------------ inputs

RECURSIVE JoinTabs(_)
JoinTabs(fields) ==
  IF fields = <<>> THEN <<>>
  ELSE IF Len(fields) = 1 THEN fields[1]
  ELSE Head(fields) \o <<TAB>> \o JoinTabs(Tail(fields))

\* The directories download_and_extract may return.
Roots == { <<SEP, "data">>, <<SEP, "data", SEP>>, <<>> }

\* The files of the extracted archive.
ArchiveNames ==
  [train |-> "before_2011_in_tr.txt",
   validation |-> "between_2011-2016_in_val.txt",
   test |-> "after_2016_in_test.txt",
   validation_ood |-> "between_2011-2016_ood_val.txt",
   test_ood |-> "after_2016_ood_test.txt"]

SplitNames == <<"train", "validation", "test", "validation_ood", "test_ood">>

ArchivePath(dir, split) == os_path_join(dir, <<ArchiveNames[split]>>)

ArchivePaths(dir) == {ArchivePath(dir, SplitNames[i]) : i \in 1..5}

\* Header lines: the five columns in the documented order, in reverse
\* order, with a sixth column among them, without the column domain, and a
\* blank line.
Columns == <<"seq", "label_id", "label_name", "seq_info", "domain">>
HeaderFields ==
  { [i \in 1..5 |-> <<Columns[i]>>],
    [i \in 1..5 |-> <<Columns[6 - i]>>],
    << <<"seq">>, <<"label_id">>, <<"extra">>, <<"label_name">>,
       <<"seq_info">>, <<"domain">> >>,
    [i \in 1..4 |-> <<Columns[i]>>],
    <<>> }

\* Field texts that do not begin with a double quote: upper and lower case,
\* a number, surrounding blanks, a double quote inside.
PlainPool ==
  << <<"ACGT">>, <<"3">>, <<" ", "Ecoli", " ">>, <<"NC_1", QUOTE, ":100">>,
     <<"in">>, <<"acgt">> >>

PlainField(i, v) == PlainPool[((i + v) % Len(PlainPool)) + 1]

\* Field texts the reader does not take as they are: a quoted field, a
\* field whose quote is never closed; and the empty field.
SpecialFields == { <<QUOTE, "Ecoli", QUOTE>>, <<QUOTE, "Eco">>, <<>> }

\* Data lines: rows of four, five and six fields, rows of five fields with
\* one special field first or last, and the blank line.
DataFields ==
  { [i \in 1..n |-> PlainField(i, v)] : n \in 4..6, v \in 0..1 }
  \cup { [i \in 1..5 |-> IF i = p THEN s ELSE PlainField(i, v)] :
           p \in {1, 5}, v \in 0..1, s \in SpecialFields }
  \cup { <<>> }

DataLines == {JoinTabs(f) : f \in DataFields}

RECURSIVE SeqsUpTo(_, _)
SeqsUpTo(S, n) ==
  IF n = 0 THEN { <<>> }
  ELSE LET shorter == SeqsUpTo(S, n - 1)
       IN shorter \cup {Append(q, x) : q \in {r \in shorter : Len(r) = n - 1}, x \in S}

\* The files drawn for the parser: the empty file, and a header line
\* followed by up to MaxRows data lines.
ParserFiles ==
  { <<>> } \cup
  { <<JoinTabs(h)>> \o rows : h \in HeaderFields, rows \in SeqsUpTo(DataLines, MaxRows) }

\* The contents of the archive's files when present: each split has its own.
DocHeader == JoinTabs([i \in 1..5 |-> <<Columns[i]>>])
ArchiveContent ==
  [train |-> <<DocHeader>> \o [k \in 1..MaxRows |->
                 JoinTabs([i \in 1..5 |-> PlainField(i, k)])],
   validation |-> <<DocHeader>>,
   test |-> << JoinTabs([i \in 1..5 |-> <<Columns[6 - i]>>]),
               JoinTabs([i \in 1..5 |-> PlainField(i, 3)]) >>,
   validation_ood |-> << JoinTabs([i \in 1..4 |-> <<Columns[i]>>]),
                         JoinTabs([i \in 1..4 |-> PlainField(i, 4)]) >>,
   test_ood |-> << DocHeader, JoinTabs([i \in 1..4 |-> PlainField(i, 5)]) >>]

\* ------------------------------------------------------------------- state

VARIABLES
  data_dir,   \* the directory download_and_extract returns when it succeeds
  fs,         \* the file system: path -> file
  calls,      \* the calls of _split_generators made, with what each returned
  fetches,    \* how often download_and_extract was called
  gens        \* the generator objects _generate_examples returned

vars == <<data_dir, fs, calls, fetches, gens>>

Gens == 1..MaxGens

FileAt(path) == IF path \in DOMAIN fs THEN fs[path] ELSE Absent

\* The extracted archive in the directory dir, the files of the splits
\* numbered in `missing` absent.
Archive(dir, missing) ==
  [p \in ArchivePaths(dir) |->
     LET i == CHOOSE j \in 1..5 : ArchivePath(dir, SplitNames[j]) = p
     IN IF i \in missing THEN Absent ELSE FileOf(ArchiveContent[SplitNames[i]])]

\* _split_generators(dl_manager), the fetch succeeding.
SplitGeneratorsOk ==
  /\ Len(calls) < MaxCalls
  /\ LET r == SplitGeneratorsCall([ok |-> TRUE, path |-> data_dir])
     IN /\ calls' = Append(calls, [raised |-> r.raised, splits |-> r.splits])
        /\ fetches' = fetches + r.fetches
  /\ UNCHANGED <<data_dir, fs, gens>>

\* _split_generators(dl_manager), the fetch failing.
SplitGeneratorsFail ==
  /\ Len(calls) < MaxCalls
  /\ LET r == SplitGeneratorsCall([ok |-> FALSE, path |-> <<>>])
     IN /\ calls' = Append(calls, [raised |-> r.raised, splits |-> r.splits])
        /\ fetches' = fetches + r.fetches
  /\ UNCHANGED <<data_dir, fs, gens>>

\* GenCreate with the row counter kept on the builder per file: a new
\* generator goes on counting where the last one on its file stopped.
GenCreate_carry(g, filename) ==
  /\ gens[g].pc = "unborn"
  /\ IF g = 1 THEN TRUE ELSE gens[g - 1].pc # "unborn"
  /\ gens' = [gens EXCEPT ![g] =
       [NewGenerator(filename) EXCEPT !.row_id =
          SetMax({0} \cup {gens[h].row_id : h \in {x \in Gens : gens[x].filename = filename}})]]
  /\ UNCHANGED <<data_dir, fs, calls, fetches>>

\* _generate_examples(filename): generator object g is created (the objects
\* are numbered in the order of their creation).
GenCreate(g, filename) ==
  /\ gens[g].pc = "unborn"
  /\ IF g = 1 THEN TRUE ELSE gens[g - 1].pc # "unborn"
  /\ gens' = [gens EXCEPT ![g] = NewGenerator(filename)]
  /\ UNCHANGED <<data_dir, fs, calls, fetches>>

\* The caller invokes _generate_examples with the gen_kwargs of a split
\* that a call of _split_generators returned.
GenCreateFromSplit(g) ==
  \E c \in 1..Len(calls) : \E i \in 1..Len(calls[c].splits) :
    GenCreate(g, calls[c].splits[i].filename)

\* GenNext with one row counter shared by all generators.
GenNext_shared(g) ==
  /\ gens[g].pc \in {"created", "suspended"}
  /\ LET fr == Resume(gens[g], FileAt(gens[g].filename))
     IN gens' = [h \in Gens |->
                  IF h = g THEN fr
                  ELSE IF gens[h].pc = "suspended"
                    THEN [gens[h] EXCEPT !.row_id = fr.row_id]
                  ELSE gens[h]]
  /\ UNCHANGED <<data_dir, fs, calls, fetches>>

\* next(g): the caller asks generator g for its next example.
GenNext(g) ==
  /\ gens[g].pc \in {"created", "suspended"}
  /\ gens' = [gens EXCEPT ![g] = Resume(gens[g], FileAt(gens[g].filename))]
  /\ UNCHANGED <<data_dir, fs, calls, fetches>>

\* g.close(): the caller abandons generator g.
GenClose(g) ==
  /\ gens[g].pc \in {"created", "suspended"}
  /\ gens' = [gens EXCEPT ![g] = Close(gens[g])]
  /\ UNCHANGED <<data_dir, fs, calls, fetches>>

\* The builder after construction: the archive is extracted to any of
\* Roots, any of its files may be absent.  The caller calls
\* _split_generators and enumerates one split at a time.
InitResolver ==
  /\ data_dir \in Roots
  /\ \E missing \in SUBSET (1..5) : fs = Archive(data_dir, missing)
  /\ calls = <<>>
  /\ fetches = 0
  /\ gens = [g \in Gens |-> Unborn]

NextResolver ==
  \/ SplitGeneratorsOk
  \/ SplitGeneratorsFail
  \/ GenCreateFromSplit(1)
  \/ GenNext(1)
  \/ GenClose(1)

SpecResolver == InitResolver /\ [][NextResolver]_vars

\* The enumeration phase: _split_generators has returned once, and the
\* caller creates, advances and abandons up to MaxGens generators in any
\* interleaving.
EnumerateDir == <<SEP, "data">>

InitEnumerate ==
  /\ data_dir = EnumerateDir
  /\ \E missing \in SUBSET (1..5) : fs = Archive(data_dir, missing)
  /\ LET r == SplitGeneratorsCall([ok |-> TRUE, path |-> data_dir])
     IN /\ calls = << [raised |-> r.raised, splits |-> r.splits] >>
        /\ fetches = r.fetches
  /\ gens = [g \in Gens |-> Unborn]

NextEnumerate ==
  \/ \E g \in Gens : GenCreateFromSplit(g)
  \/ \E g \in Gens : GenNext(g)
  \/ \E g \in Gens : GenClose(g)

SpecEnumerate == InitEnumerate /\ [][NextEnumerate]_vars

\* The parser alone: one file drawn from ParserFiles, one generator on it.
ParserPath == ArchivePath(<<SEP, "data">>, "train")

InitParser ==
  /\ data_dir = <<SEP, "data">>
  /\ \E lines \in ParserFiles :
       fs = [p \in ArchivePaths(data_dir) |->
               IF p = ParserPath THEN FileOf(lines) ELSE Absent]
  /\ calls = <<>>
  /\ fetches = 0
  /\ gens = [g \in Gens |-> Unborn]

NextParser ==
  \/ GenCreate(1, ParserPath)
  \/ GenNext(1)
  \/ GenClose(1)

SpecParser == InitParser /\ [][NextParser]_vars

\* -------------------------------------------------------------- properties

\* A line cut at its tabs, nothing else interpreted.
RECURSIVE NaiveSplit(_)
NaiveSplit(line) ==
  LET tabs == {i \in 1..Len(line) : line[i] = TAB}
  IN IF tabs = {} THEN <<line>>
     ELSE LET i == CHOOSE j \in tabs : \A k \in tabs : j <= k
          IN <<SubSeq(line, 1, i - 1)>> \o NaiveSplit(SubSeq(line, i + 1, Len(line)))

\* No field of the file begins with a double quote.
QuoteFree(lines) ==
  \A l \in 1..Len(lines) :
    /\ lines[l] = <<>> \/ Head(lines[l]) # QUOTE
    /\ \A i \in 1..(Len(lines[l]) - 1) :
         lines[l][i] = TAB => lines[l][i + 1] # QUOTE

\* The column names of the header line, cut at its tabs.
HeaderNames(lines) == NaiveSplit(lines[1])

\* The header names each of the five columns once.
NamesAll(names) ==
  \A c \in InfoFeatures : Cardinality({i \in DOMAIN names : names[i] = <<c>>}) = 1

\* The file has a header line that names each of the five columns once.
GoodHeader(lines) == Len(lines) >= 1 /\ NamesAll(HeaderNames(lines))

\* The place of column c in the header.
ColumnAt(names, c) == CHOOSE i \in DOMAIN names : names[i] = <<c>>

NotBlank(line) == line # <<>>

\* The data rows of the file: the lines after the header that are not
\* blank, each cut at its tabs.
DataRows(lines) ==
  LET kept == SelectSeq(Tail(lines), NotBlank)
  IN [k \in 1..Len(kept) |-> NaiveSplit(kept[k])]

\* A header line followed by data rows that all have as many fields as the
\* header, none beginning with a double quote.
WellFormed(lines) ==
  /\ GoodHeader(lines)
  /\ QuoteFree(lines)
  /\ LET n == Len(HeaderNames(lines))
     IN \A l \in 2..Len(lines) : Len(NaiveSplit(lines[l])) = n

\* The lines of the file generator g is bound to.
LinesOf(g) == FileAt(gens[g].filename).lines

\* A generator run alone from its creation to its end.
RECURSIVE Drain(_, _)
Drain(fr, file) ==
  IF fr.pc \in {"created", "suspended"} THEN Drain(Resume(fr, file), file) ELSE fr

Alone(g) == Drain(NewGenerator(gens[g].filename), FileAt(gens[g].filename))

Exists(g) == gens[g].pc # "unborn"

\* C1: every list _split_generators returns holds the five splits train,
\* validation, test, validation_ood, test_ood in this order, each bound to
\* the one path that is the directory joined with the split's file name;
\* the five paths differ, and two calls return the same list.
C1_SplitMapping ==
  /\ \A c \in 1..Len(calls) : ~calls[c].raised =>
       LET sp == calls[c].splits
       IN /\ Len(sp) = 5
          /\ \A i \in 1..5 :
               /\ DOMAIN sp[i] = {"name", "filename"}
               /\ sp[i].name = SplitNames[i]
               /\ sp[i].filename = os_path_join(data_dir, <<ArchiveNames[SplitNames[i]]>>)
          /\ \A i, j \in 1..5 : i # j => sp[i].filename # sp[j].filename
  /\ \A c, d \in 1..Len(calls) :
       ~calls[c].raised /\ ~calls[d].raised => calls[c].splits = calls[d].splits

C1_Witness ==
  /\ data_dir = <<SEP, "data", SEP>>
  /\ Len(calls) = 2
  /\ ~calls[1].raised /\ ~calls[2].raised
  /\ calls[2].splits[4] =
       [name |-> "validation_ood",
        filename |-> <<SEP, "data", SEP, "between_2011-2016_ood_val.txt">>]

\* C8: download_and_extract is called once per call of _split_generators,
\* a call whose fetch fails returns no split, and a generator exists (a
\* file is opened, a record is enumerated) only for a path that a call
\* whose fetch succeeded returned.
C8_FetchOncePerCall ==
  /\ fetches = Len(calls)
  /\ \A c \in 1..Len(calls) : calls[c].raised => calls[c].splits = <<>>
  /\ \A g \in Gens : Exists(g) =>
       /\ fetches >= 1
       /\ \E c \in 1..Len(calls) :
            /\ ~calls[c].raised
            /\ \E i \in 1..Len(calls[c].splits) :
                 calls[c].splits[i].filename = gens[g].filename

C8_Witness ==
  /\ Len(calls) = 2
  /\ calls[1].raised /\ ~calls[2].raised
  /\ fetches = 2
  /\ gens[1].pc = "suspended" /\ Len(gens[1].out) = 1

\* The example of a data row cut at its tabs: each field the text of the
\* column the header names the same way, None where the row does not reach
\* the column.
NaiveExample(names, row) ==
  [c \in InfoFeatures |->
     IF ColumnAt(names, c) <= Len(row) THEN Txt(row[ColumnAt(names, c)])
     ELSE NoneVal]

\* C2: on a well-formed file of a header line and N data rows the
\* generator yields N pairs and ends without error; the k-th pair carries
\* the ordinal k-1 and the example of the k-th data row (the header line is
\* line 1 and is no record), and a file of the header alone yields nothing.
C2_OnePairPerDataRow ==
  \A g \in Gens : Exists(g) /\ WellFormed(LinesOf(g)) =>
    LET lines == LinesOf(g)
        names == HeaderNames(lines)
        n == Len(lines) - 1
        out == gens[g].out
    IN /\ Len(out) <= n
       /\ gens[g].pc # "failed" /\ gens[g].err = "none"
       /\ gens[g].pc = "done" => Len(out) = n
       /\ gens[g].pc = "suspended" => Len(out) >= 1
       /\ \A k \in 1..Len(out) :
            /\ out[k][1] = k - 1
            /\ out[k][2] = NaiveExample(names, NaiveSplit(lines[k + 1]))
            /\ \A c \in InfoFeatures : out[k][2][c].kind = "text"

C2_Witness ==
  /\ WellFormed(LinesOf(1))
  /\ Len(LinesOf(1)) = 3
  /\ LinesOf(1)[2] # LinesOf(1)[3]
  /\ gens[1].pc = "done"
  /\ Len(gens[1].out) = 2

\* C3 as stated: every field of every record yielded is, verbatim, the text
\* of the row in the column the header names the same way.
C3_Verbatim ==
  \A g \in Gens : Exists(g) /\ GoodHeader(LinesOf(g)) =>
    LET names == HeaderNames(LinesOf(g))
        rows == DataRows(LinesOf(g))
        out == gens[g].out
    IN \A k \in 1..Len(out) : \A c \in InfoFeatures :
         k <= Len(rows) /\ ColumnAt(names, c) <= Len(rows[k]) =>
           out[k][2][c] = Txt(rows[k][ColumnAt(names, c)])

\* C3 amended: in a file no field of which begins with a double quote,
\* every field of every record yielded whose column the row reaches is,
\* verbatim, the text of the row in the column the header names the same
\* way, whatever the order of the columns.
C3_VerbatimUnquoted ==
  \A g \in Gens : Exists(g) /\ GoodHeader(LinesOf(g)) /\ QuoteFree(LinesOf(g)) =>
    LET names == HeaderNames(LinesOf(g))
        rows == DataRows(LinesOf(g))
        out == gens[g].out
    IN /\ Len(out) <= Len(rows)
       /\ \A k \in 1..Len(out) : \A c \in InfoFeatures :
            ColumnAt(names, c) <= Len(rows[k]) =>
              out[k][2][c] = Txt(rows[k][ColumnAt(names, c)])

C3_Witness ==
  /\ QuoteFree(LinesOf(1))
  /\ Len(LinesOf(1)) = 2
  /\ HeaderNames(LinesOf(1)) = [i \in 1..5 |-> <<Columns[6 - i]>>]
  /\ gens[1].pc = "suspended"
  /\ gens[1].out[1][2].seq_info = Txt(<<" ", "Ecoli", " ">>)
  /\ gens[1].out[1][2].label_id = Txt(<<"in">>)
  /\ gens[1].out[1][2].seq = Txt(<<"acgt">>)

\* C4 as stated: when a data row has fewer fields than the header, the
\* generator yields no record for that row nor for a later one, and fails.
C4_ShortRowFails ==
  \A g \in Gens : Exists(g) /\ GoodHeader(LinesOf(g)) /\ QuoteFree(LinesOf(g)) =>
    LET names == HeaderNames(LinesOf(g))
        rows == DataRows(LinesOf(g))
    IN \A k \in 1..Len(rows) : Len(rows[k]) < Len(names) =>
         /\ Len(gens[g].out) < k
         /\ gens[g].pc # "done"

\* C4 amended: a data row with fewer fields than the header raises no
\* error: the generator yields the earlier rows, then a record for the
\* short row in which each column the row does not reach is None, then the
\* later rows, and ends normally.
C4_ShortRowYieldsNone ==
  \A g \in Gens : Exists(g) /\ GoodHeader(LinesOf(g)) /\ QuoteFree(LinesOf(g)) =>
    LET names == HeaderNames(LinesOf(g))
        rows == DataRows(LinesOf(g))
        out == gens[g].out
    IN /\ gens[g].pc # "failed" /\ gens[g].err = "none"
       /\ gens[g].pc = "done" => Len(out) = Len(rows)
       /\ \A k \in 1..Len(out) :
            /\ out[k][1] = k - 1
            /\ \A c \in InfoFeatures :
                 ColumnAt(names, c) > Len(rows[k]) => out[k][2][c] = NoneVal

C4_Witness ==
  /\ GoodHeader(LinesOf(1)) /\ QuoteFree(LinesOf(1))
  /\ Len(LinesOf(1)) = 3
  /\ Len(NaiveSplit(LinesOf(1)[2])) = 4
  /\ Len(NaiveSplit(LinesOf(1)[3])) = 5
  /\ Len(HeaderNames(LinesOf(1))) = 5
  /\ gens[1].pc = "done"
  /\ Len(gens[1].out) = 2
  /\ gens[1].out[1][2].domain = NoneVal
  /\ gens[1].out[1][2].seq.kind = "text"
  /\ gens[1].out[2][2].domain.kind = "text"

\* C10: every record yielded, whatever the file, has the keys seq,
\* label_id, label_name, seq_info and domain and no other, which are the
\* features _info declares; both supervised keys are among them.
C10_RecordKeys ==
  /\ \A i \in 1..Len(SupervisedKeys) : SupervisedKeys[i] \in InfoFeatures
  /\ \A g \in Gens : \A k \in 1..Len(gens[g].out) :
       /\ DOMAIN gens[g].out[k][2] = InfoFeatures
       /\ \A i \in 1..Len(SupervisedKeys) :
            SupervisedKeys[i] \in DOMAIN gens[g].out[k][2]

C10_Witness ==
  /\ Len(LinesOf(1)) = 3
  /\ Len(HeaderNames(LinesOf(1))) = 5
  /\ Len(NaiveSplit(LinesOf(1)[2])) = 6
  /\ QuoteFree(LinesOf(1))
  /\ Len(gens[1].out) = 1
  /\ DOMAIN gens[1].out[1][2] = InfoFeatures

Absentee(g) == Exists(g) /\ ~FileAt(gens[g].filename).present

\* C5: a generator on a split whose file is absent yields nothing: its
\* first step fails with NotFoundError; and a generator on a split whose
\* file is present (with the five columns in its header) runs to its end
\* and has then yielded the record of every data row of its file.
C5_AbsentFileFailsAlone ==
  \A g \in Gens :
    /\ Absentee(g) =>
         /\ gens[g].out = <<>>
         /\ gens[g].pc \in {"created", "failed", "closed"}
         /\ gens[g].pc = "failed" => gens[g].err = "NotFoundError"
         /\ gens[g].handle # "open"
    /\ Exists(g) /\ ~Absentee(g) /\ GoodHeader(LinesOf(g)) =>
         /\ gens[g].pc # "failed"
         /\ gens[g].pc = "done" =>
              LET names == HeaderNames(LinesOf(g))
                  rows == DataRows(LinesOf(g))
              IN gens[g].out =
                   [k \in 1..Len(rows) |-> <<k - 1, NaiveExample(names, rows[k])>>]

C5_Witness ==
  /\ Absentee(1)
  /\ gens[1].pc = "failed" /\ gens[1].err = "NotFoundError"
  /\ gens[1].out = <<>>
  /\ ~Absentee(2)
  /\ gens[2].pc = "done" /\ Len(gens[2].out) = 2

\* C6: the file handle of a generator is open only while the generator is
\* suspended at a yield: not before its first step, and closed once it has
\* ended, has failed, or was closed by the caller after a step.
C6_HandleScoped ==
  \A g \in Gens :
    /\ gens[g].handle = "open" => gens[g].pc = "suspended"
    /\ gens[g].pc \in {"unborn", "created"} => gens[g].handle = "none"
    /\ gens[g].pc \in {"done", "failed"} => gens[g].handle = "closed"
    /\ gens[g].pc = "closed" /\ gens[g].out # <<>> => gens[g].handle = "closed"

C6_Witness ==
  /\ gens[1].pc = "closed" /\ Len(gens[1].out) = 1
  /\ gens[1].handle = "closed"
  /\ Len(DataRows(LinesOf(1))) = 2
  /\ gens[2].pc = "failed" /\ gens[2].err = "KeyError"
  /\ gens[2].handle = "closed"

Ended(g) == gens[g].pc \in {"done", "failed"}

\* C7: of two generators on the same path, each has yielded a prefix of
\* what the other yields, a generator that reached its end has yielded all
\* that the other has, and two that reached their ends have yielded the
\* same pairs and ended the same way.
C7_SamePathSameSequence ==
  \A g, h \in Gens :
    g # h /\ Exists(g) /\ Exists(h) /\ gens[g].filename = gens[h].filename =>
      /\ IsPrefix(gens[g].out, gens[h].out) \/ IsPrefix(gens[h].out, gens[g].out)
      /\ Ended(h) => IsPrefix(gens[g].out, gens[h].out)
      /\ Ended(g) /\ Ended(h) =>
           /\ gens[g].out = gens[h].out
           /\ gens[g].pc = gens[h].pc
           /\ gens[g].err = gens[h].err

C7_Witness ==
  /\ gens[1].filename = gens[2].filename
  /\ gens[1].pc = "closed" /\ Len(gens[1].out) = 1
  /\ gens[2].pc = "done" /\ Len(gens[2].out) = 2
  /\ gens[2].out[1] = gens[1].out[1]

\* C9: whatever the interleaving of the steps of the generators, each has
\* yielded a prefix of what it yields when it is run alone on its file,
\* numbered from 0, and one that reached its end has yielded all of it and
\* ended the same way.
C9_InterleavingIndependent ==
  \A g \in Gens : Exists(g) =>
    LET alone == Alone(g)
    IN /\ IsPrefix(gens[g].out, alone.out)
       /\ \A k \in 1..Len(gens[g].out) : gens[g].out[k][1] = k - 1
       /\ Ended(g) =>
            /\ gens[g].out = alone.out
            /\ gens[g].pc = alone.pc
            /\ gens[g].err = alone.err

C9_Witness ==
  /\ gens[1].filename # gens[2].filename
  /\ gens[1].pc = "suspended" /\ Len(gens[1].out) = 1
  /\ Len(Alone(1).out) = 2
  /\ gens[2].pc = "failed"

====
